---- MODULE Spec2Model ----
(***************************************************************************)
(* State machine of recorder_server.py: the in-memory session STATE, the   *)
(* take files of PERSONAL_DIR, the request handlers of the FastAPI routes  *)
(* and the background training threads started by train_now.               *)
(*                                                                         *)
(* A `with STATE_LOCK:` block of the source is one action that waits for   *)
(* the lock to be free; the reset block of a training thread is taken      *)
(* assignment by assignment, with the lock held in between.  Code between  *)
(* two blocks that touches nothing shared is folded into the block before  *)
(* it.  Everything that touches the file system or starts a thread is a    *)
(* step of its own and does not wait for the lock.                         *)
(*                                                                         *)
(* Strings are sequences of one-character strings; the Cyrillic letters    *)
(* are written as the tokens "cyr_p", "cyr_zh", "cyr_hard", "CYR_P".       *)
(* An optional value is <<>> (Python's None) or <<v>>.                     *)
(***************************************************************************)
EXTENDS Integers, Sequences, FiniteSets, TLC

VARIABLES
    State,      \* the STATE dictionary (recorder_server.py 59-80)
    files,      \* names of the *.wav files in PERSONAL_DIR
    req,        \* per request slot: the route it runs, its position, its locals
    loop,       \* the slot whose upload_take coroutine runs on the event loop, or 0
    bg,         \* per training thread: its position, its arguments, its locals
    appended,   \* history: the lines appended to log_lines since its last reset
    lastFinished, \* history: the thread that last turned running from true to
                  \* false, 0 when none has since a start request was accepted
    STATE_LOCK  \* the training thread inside its reset block, 0 when the lock
                \* is free; every other block is entered and left in one step

vars == <<State, files, req, loop, bg, appended, lastFinished, STATE_LOCK>>

----------------------------------------------------------------------------
(* Bounds of the model *)

\* request slots: the web server's threads that can run a route at once
NumHandlers == 2
\* training threads the model lets train_now start in one behaviour
MaxRuns == 2
\* lines the external process prints in one run
MaxOut == 1
\* lines the external process prints in the run of SpecLog
LogMaxOut == 300
\* takes already recorded in the initial states of SpecStart
MaxInitTakes == 4

\* how far outside their ranges the numbers of SpecSerial's payloads go
MaxOver == 2

(* Program constants *)

SPEAKERS_TOTAL_DEFAULT == 1
TAKES_PER_SPEAKER_DEFAULT == 10
SPEAKERS_MAX == 10
TAKES_MAX == 50
LOG_CAP == 250
MIN_WAV_BYTES == 44
SENTINEL_EXIT == 999
TRAIN_MIN_TAKES == 3

Handlers == 1..NumHandlers
Runs == 1..MaxRuns

None == <<>>
Some(v) == <<v>>
\* Python's truth of an optional string: neither None nor ""
Truthy(opt) == opt # None /\ opt[1] # <<>>
\* the same for a word kept as one string (a language tag)
TruthyWord(opt) == opt # None /\ opt[1] # ""
\* `v or d` for an optional integer v: None and 0 are both false
IntOr(v, d) == IF v = None \/ v[1] = 0 THEN d ELSE v[1]

Min(a, b) == IF a < b THEN a ELSE b
Max(a, b) == IF a > b THEN a ELSE b

----------------------------------------------------------------------------
(* safe_name and detect_language *)

CyrLower == {"cyr_p", "cyr_zh", "cyr_hard"}
CyrUpper == {"CYR_P"}
AsciiLower == {"h", "i", "y", "o"}
AsciiUpper == {"H"}
Spaces == {" "}

\* str.lower() on one character
Lower(ch) ==
    CASE ch = "H" -> "h"
      [] ch = "CYR_P" -> "cyr_p"
      [] OTHER -> ch

\* _RU_TRANSLIT restricted to the letters of the model's alphabet
_RU_TRANSLIT ==
    [ch \in CyrLower |->
        CASE ch = "cyr_p" -> <<"p">>
          [] ch = "cyr_zh" -> <<"z", "h">>
          [] ch = "cyr_hard" -> <<>>]

isalnum(ch) == ch \in AsciiLower \cup AsciiUpper \cup CyrLower \cup CyrUpper

RECURSIVE lstrip(_, _)
lstrip(s, drop) ==
    IF s # <<>> /\ Head(s) \in drop THEN lstrip(Tail(s), drop) ELSE s

RECURSIVE rstrip(_, _)
rstrip(s, drop) ==
    IF s # <<>> /\ s[Len(s)] \in drop
    THEN rstrip(SubSeq(s, 1, Len(s) - 1), drop)
    ELSE s

\* str.strip()
strip(s) == rstrip(lstrip(s, Spaces), Spaces)

\* the loop of safe_name: one character to the characters it appends
safe_char(ch) ==
    IF ch \in DOMAIN _RU_TRANSLIT THEN _RU_TRANSLIT[ch]
    ELSE IF isalnum(ch) THEN <<ch>>
    ELSE <<"_">>

RECURSIVE safe_join(_)
safe_join(s) ==
    IF s = <<>> THEN <<>> ELSE safe_char(Lower(Head(s))) \o safe_join(Tail(s))

\* re.sub(r"_+", "_", s)
RECURSIVE collapse(_)
collapse(s) ==
    IF Len(s) < 2 THEN s
    ELSE IF s[1] = "_" /\ s[2] = "_" THEN collapse(Tail(s))
    ELSE <<s[1]>> \o collapse(Tail(s))

WAKEWORD == <<"w", "a", "k", "e", "w", "o", "r", "d">>

safe_name(raw) ==
    LET s == rstrip(lstrip(collapse(safe_join(strip(raw))), {"_"}), {"_"})
    IN  IF s = <<>> THEN WAKEWORD ELSE s

detect_language(raw) ==
    IF \E i \in 1..Len(raw) : raw[i] \in CyrLower \cup CyrUpper
    THEN "ru" ELSE "en"

----------------------------------------------------------------------------
(* Canonical take file name: f"speaker{s:02d}_take{t:02d}.wav" *)

DigitChar == <<"0", "1", "2", "3", "4", "5", "6", "7", "8", "9">>

RECURSIVE digits(_)
digits(n) ==
    IF n < 10 THEN <<DigitChar[n + 1]>>
    ELSE digits(n \div 10) \o <<DigitChar[(n % 10) + 1]>>

\* format(n, "02d") for n >= 0
fmt02d(n) == IF n < 10 THEN <<"0">> \o digits(n) ELSE digits(n)

out_name(speaker_index, take_index) ==
    <<"speaker">> \o fmt02d(speaker_index) \o <<"_take">>
        \o fmt02d(take_index) \o <<".wav">>

----------------------------------------------------------------------------
(* Initial state: the module-level STATE literal, an empty PERSONAL_DIR,   *)
(* no request in progress and no training thread started.                  *)

TRAINING0 ==
    [running |-> FALSE, exit_code |-> None, log_lines |-> <<>>,
     log_path |-> None, safe_word |-> None, lang |-> None]

STATE0 ==
    [raw_phrase |-> None, safe_word |-> None, lang |-> None,
     speakers_total |-> SPEAKERS_TOTAL_DEFAULT,
     takes_per_speaker |-> TAKES_PER_SPEAKER_DEFAULT,
     takes_received |-> 0, takes |-> <<>>,
     training |-> TRAINING0]

Idle == [op |-> "idle", pc |-> "idle"]
Unborn == [pc |-> "unborn"]

\* a finished request waiting for its response to be delivered
Done(route, status, body) ==
    [op |-> route, pc |-> "done", status |-> status, body |-> body]

Init ==
    /\ State = STATE0
    /\ files = {}
    /\ req = [h \in Handlers |-> Idle]
    /\ loop = 0
    /\ bg = [t \in Runs |-> Unborn]
    /\ appended = <<>>
    /\ lastFinished = 0
    /\ STATE_LOCK = 0

\* No response is waiting to be delivered.  A finished request's response is
\* delivered before anything else happens: the delivery touches nothing
\* shared, so every interleaving has an equivalent one of this form.
Quiet == \A h \in Handlers : req[h].pc # "done"

\* `with STATE_LOCK:` (line 82) can be entered: no thread is inside a block.
\* A block that only reads or writes STATE is entered, run and left in one
\* step, and that step waits until the lock is free.
LockFree == STATE_LOCK = 0

\* the web server hands the response to the client; the slot is free again
Return(h) ==
    /\ req[h].pc = "done"
    /\ req' = [req EXCEPT ![h] = Idle]
    /\ UNCHANGED <<STATE_LOCK, State, files, loop, bg, appended, lastFinished>>

----------------------------------------------------------------------------
(* Request inputs *)

\* the payloads of start_session: phrase, speakers_total, takes_per_speaker, lang
Payload(phrase, speakers, takes, langIn) ==
    [phrase |-> phrase, speakers_total |-> speakers,
     takes_per_speaker |-> takes, lang |-> langIn]

\* Session payloads of SpecTakes, the specification of the recording side
Payloads ==
    {Payload(p, s, t, l) :
        p \in {<<" ">>, <<"H", "i", " ">>},
        s \in {None, Some(0 - 1), Some(2)},
        t \in {Some(1)},
        l \in {None, Some("de")}}
SpeakerIndexes == {0, 1, 2, 3}
TakeIndexes == {0, 1, 2}

\* Session payloads of Spec, the whole server: two phrases, one speaker, one take
FewPayloads ==
    {Payload(p, None, Some(1), Some("auto")) :
        p \in {<<>>, <<"H", "i", " ">>, <<"CYR_P", "cyr_zh">>}}
FewIndexes == {1, 2}

\* Session payloads of SpecSerial: every speakers_total from below the range
\* to above it, takes_per_speaker around both ends of its range
SerialPayloads ==
    {Payload(p, s, t, None) :
        p \in {<<" ">>, <<"H", "i">>},
        s \in {None} \cup {Some(n) : n \in (0 - MaxOver)..(SPEAKERS_MAX + MaxOver)},
        t \in {None} \cup {Some(n) : n \in ((0 - MaxOver)..2)
                                        \cup ((TAKES_MAX - 1)..(TAKES_MAX + MaxOver))}}
\* the indexes of SpecSerial's uploads: both ends of 1..n and their neighbours
EdgeIndexes(n) == {0, 1, n, n + 1}

\* (payload.get("lang") or "auto").strip().lower() on the model's language words
lang_word(given) ==
    IF given = None THEN "auto"
    ELSE CASE given[1] = "RU" -> "ru"
           [] given[1] = "EN" -> "en"
           [] OTHER -> given[1]

----------------------------------------------------------------------------
(* _reset_personal_samples_dir: glob("*.wav") lists the directory, then    *)
(* every listed file is unlinked; a file that is gone already is skipped.  *)
(* The listing is one step and the unlinking of the listed files another.  *)

glob_wav == files

unlink_listed(listed) == files \ listed

----------------------------------------------------------------------------
(* POST /api/start_session *)

\* lines 163-178: the stored session values, or the 400 error
session_values(payload) ==
    LET raw == strip(payload.phrase)
        word == lang_word(payload.lang)
        speakers == payload.speakers_total
        takes == payload.takes_per_speaker
    IN  IF raw = <<>> THEN [ok |-> FALSE, error |-> "phrase is required"]
        ELSE IF word \notin {"auto", "en", "ru"}
        THEN [ok |-> FALSE, error |-> "lang must be one of: auto, en, ru"]
        ELSE [ok |-> TRUE,
              raw_phrase |-> raw,
              safe_word |-> safe_name(raw),
              lang |-> IF word = "auto" THEN detect_language(raw) ELSE word,
              speakers_total |->
                  Max(1, Min(SPEAKERS_MAX, IntOr(speakers, SPEAKERS_TOTAL_DEFAULT))),
              takes_per_speaker |->
                  Max(1, Min(TAKES_MAX, IntOr(takes, TAKES_PER_SPEAKER_DEFAULT)))]

\* session_store without lines 186-187
session_store_keeps_takes(st, v) ==
    [st EXCEPT !.raw_phrase = Some(v.raw_phrase),
               !.safe_word = Some(v.safe_word),
               !.lang = Some(v.lang),
               !.speakers_total = v.speakers_total,
               !.takes_per_speaker = v.takes_per_speaker]

\* session_store starting the training record afresh as well
session_store_resets_training(st, v) ==
    [st EXCEPT !.raw_phrase = Some(v.raw_phrase),
               !.safe_word = Some(v.safe_word),
               !.lang = Some(v.lang),
               !.speakers_total = v.speakers_total,
               !.takes_per_speaker = v.takes_per_speaker,
               !.takes_received = 0,
               !.takes = <<>>,
               !.training = TRAINING0]

\* lines 180-187: the block under STATE_LOCK
session_store(st, v) ==
    [st EXCEPT !.raw_phrase = Some(v.raw_phrase),
               !.safe_word = Some(v.safe_word),
               !.lang = Some(v.lang),
               !.speakers_total = v.speakers_total,
               !.takes_per_speaker = v.takes_per_speaker,
               !.takes_received = 0,
               !.takes = <<>>]

start_session(h, payloads) ==
    /\ Quiet
    /\ req[h].pc = "idle"
    /\ \E payload \in payloads :
        LET v == session_values(payload)
        IN  IF ~v.ok
            THEN /\ req' = [req EXCEPT ![h] = Done("start_session", 400, v)]
                 /\ State' = State
            ELSE /\ LockFree
                 /\ State' = session_store(State, v)
                 /\ req' = [req EXCEPT ![h] =
                        [op |-> "start_session", pc |-> "glob", v |-> v,
                         payload |-> payload]]
    /\ UNCHANGED <<STATE_LOCK, files, loop, bg, appended, lastFinished>>

\* line 191 begins: the directory is listed
start_session_glob(h) ==
    /\ Quiet
    /\ req[h].op = "start_session"
    /\ req[h].pc = "glob"
    /\ req' = [req EXCEPT ![h] =
            [op |-> "start_session", pc |-> "unlink", v |-> req[h].v,
             listed |-> glob_wav]]
    /\ UNCHANGED <<STATE_LOCK, State, files, loop, bg, appended, lastFinished>>

\* line 191 ends and lines 193-201 build the response; `listed`, the files
\* the call has unlinked, stays with the finished request
start_session_unlink(h) ==
    /\ Quiet
    /\ req[h].op = "start_session"
    /\ req[h].pc = "unlink"
    /\ files' = unlink_listed(req[h].listed)
    /\ req' = [req EXCEPT ![h] =
            Done("start_session", 200,
                [req[h].v EXCEPT !.ok = TRUE] @@
                [takes_total |->
                    req[h].v.speakers_total * req[h].v.takes_per_speaker])
            @@ [listed |-> req[h].listed]]
    /\ UNCHANGED <<STATE_LOCK, State, loop, bg, appended, lastFinished>>

----------------------------------------------------------------------------
(* GET /api/session *)

get_session(h) ==
    /\ Quiet
    /\ LockFree
    /\ req[h].pc = "idle"
    /\ req' = [req EXCEPT ![h] = Done("get_session", 200, State)]
    /\ UNCHANGED <<STATE_LOCK, State, files, loop, bg, appended, lastFinished>>

----------------------------------------------------------------------------
(* POST /api/reset_recordings *)

\* line 301 begins: the directory is listed
reset_recordings(h) ==
    /\ Quiet
    /\ req[h].pc = "idle"
    /\ req' = [req EXCEPT ![h] =
            [op |-> "reset_recordings", pc |-> "unlink", listed |-> glob_wav]]
    /\ UNCHANGED <<STATE_LOCK, State, files, loop, bg, appended, lastFinished>>

reset_recordings_unlink(h) ==
    /\ Quiet
    /\ req[h].op = "reset_recordings"
    /\ req[h].pc = "unlink"
    /\ files' = unlink_listed(req[h].listed)
    /\ req' = [req EXCEPT ![h] = [op |-> "reset_recordings", pc |-> "clear"]]
    /\ UNCHANGED <<STATE_LOCK, State, loop, bg, appended, lastFinished>>

\* lines 302-305
reset_recordings_clear(h) ==
    /\ Quiet
    /\ LockFree
    /\ req[h].op = "reset_recordings"
    /\ req[h].pc = "clear"
    /\ State' = [State EXCEPT !.takes_received = 0, !.takes = <<>>]
    /\ req' = [req EXCEPT ![h] = Done("reset_recordings", 200, [ok |-> TRUE])]
    /\ UNCHANGED <<STATE_LOCK, files, loop, bg, appended, lastFinished>>

----------------------------------------------------------------------------
(* POST /api/upload_take: a coroutine of the event loop.  Coroutines run   *)
(* one at a time and change over only at `await file.read()`; the routes   *)
(* declared with `def` run on worker threads and interleave freely.        *)

PayloadSizes == {0, MIN_WAV_BYTES - 1, MIN_WAV_BYTES}

\* upload_error with the speaker test one too wide at the top
upload_error_lax(safe_word, speakers_total, takes_per_speaker, speaker_index, take_index) ==
    IF ~Truthy(safe_word)
    THEN Some("No active session. Call /api/start_session first.")
    ELSE IF speaker_index < 1 \/ speaker_index > speakers_total + 1
    THEN Some("speaker_index must be 1..speakers_total")
    ELSE IF take_index < 1 \/ take_index > takes_per_speaker
    THEN Some("take_index must be 1..takes_per_speaker")
    ELSE None

\* lines 231-238 on the values read at lines 227-229: the 400 error, or None
upload_error(safe_word, speakers_total, takes_per_speaker, speaker_index, take_index) ==
    IF ~Truthy(safe_word)
    THEN Some("No active session. Call /api/start_session first.")
    ELSE IF speaker_index < 1 \/ speaker_index > speakers_total
    THEN Some("speaker_index must be 1..speakers_total")
    ELSE IF take_index < 1 \/ take_index > takes_per_speaker
    THEN Some("take_index must be 1..takes_per_speaker")
    ELSE None

\* lines 226-244, up to the await; a rejected request keeps the indexes it
\* was called with
upload_take(h, speakers, takes) ==
    /\ Quiet
    /\ LockFree
    /\ req[h].pc = "idle"
    /\ loop = 0
    /\ \E speaker_index \in speakers, take_index \in takes :
        LET err == upload_error(State.safe_word, State.speakers_total,
                                State.takes_per_speaker, speaker_index, take_index)
        IN  IF err # None
            THEN req' = [req EXCEPT ![h] =
                    [op |-> "upload_take", pc |-> "done", status |-> 400,
                     body |-> [ok |-> FALSE, error |-> err[1]],
                     speaker_index |-> speaker_index, take_index |-> take_index]]
            ELSE req' = [req EXCEPT ![h] =
                    [op |-> "upload_take", pc |-> "read",
                     out_name |-> out_name(speaker_index, take_index),
                     speaker_index |-> speaker_index, take_index |-> take_index]]
    /\ UNCHANGED <<STATE_LOCK, State, files, loop, bg, appended, lastFinished>>

\* lines 246-250: the coroutine resumes with the payload
upload_take_write(h) ==
    /\ Quiet
    /\ req[h].op = "upload_take"
    /\ req[h].pc = "read"
    /\ loop = 0
    /\ \E size \in PayloadSizes :
        IF size = 0 \/ size < MIN_WAV_BYTES
        THEN /\ req' = [req EXCEPT ![h] = Done("upload_take", 400,
                    [ok |-> FALSE, error |-> "Empty/invalid file"])]
             /\ UNCHANGED <<files, loop>>
        ELSE /\ files' = files \cup {req[h].out_name}
             /\ loop' = h
             /\ req' = [req EXCEPT ![h].pc = "record"]
    /\ UNCHANGED <<STATE_LOCK, State, bg, appended, lastFinished>>

\* take_record without the `not in` test of line 253
take_record_always(st, name) ==
    [st EXCEPT !.takes = Append(st.takes, name),
               !.takes_received = Len(st.takes) + 1]

\* lines 253-255: the block under STATE_LOCK
take_record(st, name) ==
    IF \E i \in 1..Len(st.takes) : st.takes[i] = name
    THEN st
    ELSE [st EXCEPT !.takes = Append(st.takes, name),
                    !.takes_received = Len(st.takes) + 1]

\* `added` is the branch line 253 took, `total` the length of the list when
\* the block is left
upload_take_record(h) ==
    /\ Quiet
    /\ LockFree
    /\ req[h].op = "upload_take"
    /\ req[h].pc = "record"
    /\ State' = take_record(State, req[h].out_name)
    /\ req' = [req EXCEPT ![h] =
            [op |-> "upload_take", pc |-> "respond", out_name |-> req[h].out_name,
             added |-> State'.takes # State.takes,
             total |-> Len(State'.takes)]]
    /\ UNCHANGED <<STATE_LOCK, files, loop, bg, appended, lastFinished>>

\* line 257: STATE["takes_received"] is read without the lock
upload_take_respond(h) ==
    /\ Quiet
    /\ req[h].op = "upload_take"
    /\ req[h].pc = "respond"
    /\ req' = [req EXCEPT ![h] = Done("upload_take", 200,
            [ok |-> TRUE, saved_as |-> req[h].out_name,
             takes_received |-> State.takes_received])]
    /\ loop' = 0
    /\ UNCHANGED <<STATE_LOCK, State, files, bg, appended, lastFinished>>

----------------------------------------------------------------------------
(* POST /api/train *)

\* takes_needed without the min against the session's total
takes_needed_fixed(takes_total) == Max(1, TRAIN_MIN_TAKES)

\* max(1, min(3, takes_total)) of line 277
takes_needed(takes_total) == Max(1, Min(TRAIN_MIN_TAKES, takes_total))

\* train_error with the running test moved behind the takes test
train_error_running_late(seen) ==
    IF ~Truthy(seen.safe_word)
    THEN Some([status |-> 400, error |-> "No active session"])
    ELSE IF seen.takes_received
            < takes_needed(seen.speakers_total * seen.takes_per_speaker)
    THEN Some([status |-> 400, error |-> "Not enough takes yet"])
    ELSE IF seen.training_running
    THEN Some([status |-> 400, error |-> "Training already running"])
    ELSE IF ~seen.script_exists
    THEN Some([status |-> 500, error |-> "TRAIN_SCRIPT not found"])
    ELSE None

\* lines 269-281 on the values read at lines 263-267: the error, or None
train_error(seen) ==
    IF seen.training_running
    THEN Some([status |-> 400, error |-> "Training already running"])
    ELSE IF ~Truthy(seen.safe_word)
    THEN Some([status |-> 400, error |-> "No active session"])
    ELSE IF seen.takes_received
            < takes_needed(seen.speakers_total * seen.takes_per_speaker)
    THEN Some([status |-> 400, error |-> "Not enough takes yet"])
    ELSE IF ~seen.script_exists
    THEN Some([status |-> 500, error |-> "TRAIN_SCRIPT not found"])
    ELSE None

\* the training threads started so far and those about to be started
RunsClaimed ==
    Cardinality({t \in Runs : bg[t].pc # "unborn"})
        + Cardinality({h \in Handlers : req[h].pc = "launch"})

\* lines 262-281; script_exists is what Path(TRAIN_SCRIPT).exists() answers
train_now(h) ==
    /\ Quiet
    /\ LockFree
    /\ req[h].pc = "idle"
    /\ \E script_exists \in BOOLEAN :
        LET seen == [safe_word |-> State.safe_word,
                     takes_received |-> State.takes_received,
                     speakers_total |-> State.speakers_total,
                     takes_per_speaker |-> State.takes_per_speaker,
                     training_running |-> State.training.running,
                     script_exists |-> script_exists]
            err == train_error(seen)
        IN  IF err # None
            THEN /\ req' = [req EXCEPT ![h] =
                        [op |-> "train_now", pc |-> "done", status |-> err[1].status,
                         body |-> [ok |-> FALSE, error |-> err[1].error],
                         seen |-> seen]]
                 /\ UNCHANGED lastFinished
            ELSE /\ RunsClaimed < MaxRuns
                 /\ req' = [req EXCEPT ![h] =
                        [op |-> "train_now", pc |-> "launch", seen |-> seen]]
                 /\ lastFinished' = 0
    /\ UNCHANGED <<STATE_LOCK, State, files, loop, bg, appended>>

\* lines 283-285: the block under STATE_LOCK; the arguments of the thread
train_args(st, safe_word) ==
    LET raw_phrase == IF Truthy(st.raw_phrase) THEN st.raw_phrase[1] ELSE safe_word
        lang == IF TruthyWord(st.lang) THEN st.lang[1] ELSE detect_language(raw_phrase)
    IN  [safe_word |-> safe_word, raw_phrase |-> raw_phrase, lang |-> lang]

\* a thread as threading.Thread(...).start() leaves it; `cleared` counts the
\* times it has run the finally block, `wrote` the assignments of its reset
\* block it has made
Born(args) ==
    [pc |-> "reset", rc |-> None, printed |-> 0, cleared |-> 0, wrote |-> 0,
     args |-> args]

\* lines 283-290: the thread is started and the acceptance returned
train_now_launch(h) ==
    /\ Quiet
    /\ LockFree
    /\ req[h].op = "train_now"
    /\ req[h].pc = "launch"
    /\ \E t \in Runs :
        /\ bg[t].pc = "unborn"
        /\ \A u \in Runs : u < t => bg[u].pc # "unborn"
        /\ bg' = [bg EXCEPT ![t] =
                Born(train_args(State, req[h].seen.safe_word[1]))]
    /\ req' = [req EXCEPT ![h] =
            [op |-> "train_now", pc |-> "done", status |-> 200,
             body |-> [ok |-> TRUE, started |-> TRUE,
                       safe_word |-> req[h].seen.safe_word[1]],
             seen |-> req[h].seen]]
    /\ UNCHANGED <<STATE_LOCK, State, files, loop, appended, lastFinished>>

----------------------------------------------------------------------------
(* GET /api/train_status *)

\* train_status reading the record without taking the lock
train_status_unlocked(h) ==
    /\ Quiet
    /\ req[h].pc = "idle"
    /\ req' = [req EXCEPT ![h] = Done("train_status", 200, State.training)]
    /\ UNCHANGED <<STATE_LOCK, State, files, loop, bg, appended, lastFinished>>

train_status(h) ==
    /\ Quiet
    /\ LockFree
    /\ req[h].pc = "idle"
    /\ req' = [req EXCEPT ![h] = Done("train_status", 200, State.training)]
    /\ UNCHANGED <<STATE_LOCK, State, files, loop, bg, appended, lastFinished>>

----------------------------------------------------------------------------
(* _append_train_log and _run_training_background *)

ExitCodes == {0, 1}
LOG_PATH == "recorder_training.log"

\* _append_train_log trimming one line too late
_append_train_log_late(buf, line) ==
    LET b == Append(buf, line)
    IN  IF Len(b) > LOG_CAP + 1 THEN SubSeq(b, Len(b) - LOG_CAP + 1, Len(b)) ELSE b

\* lines 97-100 on the buffer
_append_train_log(buf, line) ==
    LET b == Append(buf, line)
    IN  IF Len(b) > LOG_CAP THEN SubSeq(b, Len(b) - LOG_CAP + 1, Len(b)) ELSE b

\* one call of _append_train_log, as part of a step of a training thread
LogAppend(line) ==
    /\ State' = [State EXCEPT
            !.training.log_lines = _append_train_log(@, line)]
    /\ appended' = Append(appended, line)

cmd(a) ==
    <<"bash", "TRAIN_SCRIPT", "--phrase", a.raw_phrase, "--id", a.safe_word,
      "--lang", a.lang>>

\* lines 106-113: the block under STATE_LOCK
training_reset(tr, a) ==
    [tr EXCEPT !.running = TRUE, !.exit_code = None, !.log_lines = <<>>,
               !.safe_word = Some(a.safe_word), !.lang = Some(a.lang),
               !.log_path = Some(LOG_PATH)]

\* the assignments of lines 107-113, in their order
ResetFields ==
    <<"running", "exit_code", "log_lines", "safe_word", "lang", "log_path">>

\* the k-th assignment of the block alone
reset_write(tr, a, k) ==
    [tr EXCEPT ![ResetFields[k]] = training_reset(tr, a)[ResetFields[k]]]

\* run_reset_write with the lock kept when the block is left
run_reset_write_keeps(t) ==
    /\ Quiet
    /\ bg[t].pc = "resetting"
    /\ STATE_LOCK = t
    /\ LET k == bg[t].wrote + 1
       IN  /\ State' = [State EXCEPT !.training = reset_write(@, bg[t].args, k)]
           /\ appended' = IF ResetFields[k] = "log_lines" THEN <<>> ELSE appended
           /\ IF k = Len(ResetFields)
              THEN bg' = [bg EXCEPT ![t].pc = "log_cmd", ![t].wrote = k]
              ELSE bg' = [bg EXCEPT ![t].wrote = k]
    /\ UNCHANGED <<STATE_LOCK, files, req, loop, lastFinished>>

\* line 106: the thread enters the block
run_reset(t) ==
    /\ Quiet
    /\ LockFree
    /\ bg[t].pc = "reset"
    /\ STATE_LOCK' = t
    /\ bg' = [bg EXCEPT ![t].pc = "resetting"]
    /\ UNCHANGED <<State, files, req, loop, appended, lastFinished>>

\* lines 107-113: one assignment; after the last one the block is left
run_reset_write(t) ==
    /\ Quiet
    /\ bg[t].pc = "resetting"
    /\ STATE_LOCK = t
    /\ LET k == bg[t].wrote + 1
       IN  /\ State' = [State EXCEPT !.training = reset_write(@, bg[t].args, k)]
           /\ appended' = IF ResetFields[k] = "log_lines" THEN <<>> ELSE appended
           /\ IF k = Len(ResetFields)
              THEN /\ bg' = [bg EXCEPT ![t].pc = "log_cmd", ![t].wrote = k]
                   /\ STATE_LOCK' = 0
              ELSE /\ bg' = [bg EXCEPT ![t].wrote = k]
                   /\ UNCHANGED STATE_LOCK
    /\ UNCHANGED <<files, req, loop, lastFinished>>

\* lines 115-127: the command is logged, then the log file is opened and
\* the process started, or one of the two raises
run_log_cmd(t) ==
    /\ Quiet
    /\ LockFree
    /\ bg[t].pc = "log_cmd"
    /\ LogAppend(<<"running", cmd(bg[t].args)>>)
    /\ \E raised \in BOOLEAN :
        bg' = [bg EXCEPT ![t].pc = IF raised THEN "except" ELSE "stream"]
    /\ UNCHANGED <<STATE_LOCK, files, req, loop, lastFinished>>

\* lines 128-131: one line of the process's output
run_stream_line(t, most) ==
    /\ Quiet
    /\ LockFree
    /\ bg[t].pc = "stream"
    /\ bg[t].printed < most
    /\ LogAppend(<<"out", t, bg[t].printed + 1>>)
    /\ bg' = [bg EXCEPT ![t].printed = @ + 1]
    /\ UNCHANGED <<STATE_LOCK, files, req, loop, lastFinished>>

\* lines 128-130: reading the output or writing the log file raises
run_stream_raise(t) ==
    /\ Quiet
    /\ bg[t].pc = "stream"
    /\ bg' = [bg EXCEPT ![t].pc = "except"]
    /\ UNCHANGED <<STATE_LOCK, State, files, req, loop, appended, lastFinished>>

\* lines 133-135: the output ends, the process exits with rc, rc is logged
run_log_finished(t) ==
    /\ Quiet
    /\ LockFree
    /\ bg[t].pc = "stream"
    /\ \E rc \in ExitCodes :
        /\ LogAppend(<<"finished", rc>>)
        /\ bg' = [bg EXCEPT ![t].pc = "set_exit", ![t].rc = Some(rc)]
    /\ UNCHANGED <<STATE_LOCK, files, req, loop, lastFinished>>

\* lines 136-137
run_set_exit(t) ==
    /\ Quiet
    /\ LockFree
    /\ bg[t].pc = "set_exit"
    /\ State' = [State EXCEPT !.training.exit_code = bg[t].rc]
    /\ bg' = [bg EXCEPT ![t].pc = "finally"]
    /\ UNCHANGED <<STATE_LOCK, files, req, loop, appended, lastFinished>>

\* line 140
run_log_crashed(t) ==
    /\ Quiet
    /\ LockFree
    /\ bg[t].pc = "except"
    /\ LogAppend(<<"crashed", t>>)
    /\ bg' = [bg EXCEPT ![t].pc = "set_sentinel"]
    /\ UNCHANGED <<STATE_LOCK, files, req, loop, lastFinished>>

\* run_set_sentinel with running cleared in the try body only, not in finally
run_set_sentinel_ends(t) ==
    /\ Quiet
    /\ bg[t].pc = "set_sentinel"
    /\ State' = [State EXCEPT !.training.exit_code = Some(SENTINEL_EXIT)]
    /\ bg' = [bg EXCEPT ![t] = [pc |-> "done", rc |-> bg[t].rc, cleared |-> 0]]
    /\ UNCHANGED <<STATE_LOCK, files, req, loop, appended, lastFinished>>

\* run_set_sentinel recording an ordinary exit code
run_set_sentinel_plain(t) ==
    /\ Quiet
    /\ LockFree
    /\ bg[t].pc = "set_sentinel"
    /\ State' = [State EXCEPT !.training.exit_code = Some(1)]
    /\ bg' = [bg EXCEPT ![t].pc = "finally"]
    /\ UNCHANGED <<STATE_LOCK, files, req, loop, appended, lastFinished>>

\* lines 141-142
run_set_sentinel(t) ==
    /\ Quiet
    /\ LockFree
    /\ bg[t].pc = "set_sentinel"
    /\ State' = [State EXCEPT !.training.exit_code = Some(SENTINEL_EXIT)]
    /\ bg' = [bg EXCEPT ![t].pc = "finally"]
    /\ UNCHANGED <<STATE_LOCK, files, req, loop, appended, lastFinished>>

\* lines 144-146
run_finally(t) ==
    /\ Quiet
    /\ LockFree
    /\ bg[t].pc = "finally"
    /\ State' = [State EXCEPT !.training.running = FALSE]
    /\ lastFinished' = IF State.training.running THEN t ELSE lastFinished
    /\ bg' = [bg EXCEPT ![t] =
            [pc |-> "done", rc |-> bg[t].rc, cleared |-> bg[t].cleared + 1]]
    /\ UNCHANGED <<STATE_LOCK, files, req, loop, appended>>

_run_training_background(t, most) ==
    \/ run_reset(t)
    \/ run_reset_write(t)
    \/ run_log_cmd(t)
    \/ run_stream_line(t, most)
    \/ run_stream_raise(t)
    \/ run_log_finished(t)
    \/ run_set_exit(t)
    \/ run_log_crashed(t)
    \/ run_set_sentinel(t)
    \/ run_finally(t)

----------------------------------------------------------------------------
(* The server: any free slot takes any request, every started request and  *)
(* every training thread moves on.                                         *)

Next ==
    \/ \E h \in Handlers : Return(h)
    \/ \E h \in Handlers :
        \/ start_session(h, FewPayloads)
        \/ start_session_glob(h)
        \/ start_session_unlink(h)
        \/ get_session(h)
        \/ upload_take(h, FewIndexes, FewIndexes)
        \/ upload_take_write(h)
        \/ upload_take_record(h)
        \/ upload_take_respond(h)
        \/ train_now(h)
        \/ train_now_launch(h)
        \/ train_status(h)
        \/ reset_recordings(h)
        \/ reset_recordings_unlink(h)
        \/ reset_recordings_clear(h)
    \/ \E t \in Runs : _run_training_background(t, MaxOut)

Spec == Init /\ [][Next]_vars

\* The recording side alone: no training is started
NextTakes ==
    \/ \E h \in Handlers : Return(h)
    \/ \E h \in Handlers :
        \/ start_session(h, Payloads)
        \/ start_session_glob(h)
        \/ start_session_unlink(h)
        \/ get_session(h)
        \/ upload_take(h, SpeakerIndexes, TakeIndexes)
        \/ upload_take_write(h)
        \/ upload_take_record(h)
        \/ upload_take_respond(h)
        \/ reset_recordings(h)
        \/ reset_recordings_unlink(h)
        \/ reset_recordings_clear(h)

SpecTakes == Init /\ [][NextTakes]_vars

\* The training side: a session with its one take recorded, as left by
\* start_session("Hi ", takes_per_speaker = 1) and upload_take(1, 1)
TrainReady ==
    take_record(
        session_store(STATE0,
            session_values(Payload(<<"H", "i", " ">>, None, Some(1), None))),
        out_name(1, 1))

InitTrain ==
    /\ State = TrainReady
    /\ files = {out_name(1, 1)}
    /\ req = [h \in Handlers |-> Idle]
    /\ loop = 0
    /\ bg = [t \in Runs |-> Unborn]
    /\ appended = <<>>
    /\ lastFinished = 0
    /\ STATE_LOCK = 0

NextTrain ==
    \/ \E h \in Handlers : Return(h)
    \/ \E h \in Handlers :
        \/ get_session(h)
        \/ train_now(h)
        \/ train_now_launch(h)
        \/ train_status(h)
    \/ \E t \in Runs : _run_training_background(t, MaxOut)

SpecTrain == InitTrain /\ [][NextTrain]_vars

\* Threads are scheduled fairly and responses are delivered.  A thread's step
\* waits while a response is being delivered, so its fairness is strong here.
FairTrain ==
    /\ SpecTrain
    /\ \A t \in Runs : SF_vars(_run_training_background(t, MaxOut))
    /\ \A h \in Handlers : WF_vars(Return(h))

\* The check of a start request alone, over every session the clamped
\* ranges allow: the first n takes recorded, no training or one in progress
TakeNames(speakers_total, takes_per_speaker, n) ==
    [i \in 1..n |->
        out_name(((i - 1) \div takes_per_speaker) + 1,
                 ((i - 1) % takes_per_speaker) + 1)]

InitStart ==
    \/ Init
    \/ \E speakers_total \in 1..SPEAKERS_MAX, takes_per_speaker \in 1..TAKES_MAX,
          n \in 0..MaxInitTakes, running \in BOOLEAN :
        LET v == session_values(Payload(<<"H", "i">>, Some(speakers_total),
                                        Some(takes_per_speaker), None))
            names == TakeNames(speakers_total, takes_per_speaker, n)
            session == [session_store(STATE0, v) EXCEPT
                            !.takes = names, !.takes_received = n]
            args == train_args(session, v.safe_word)
            line == <<"running", cmd(args)>>
        IN  /\ n <= speakers_total * takes_per_speaker
            /\ State = IF running
                       THEN [session EXCEPT !.training =
                                [training_reset(TRAINING0, args) EXCEPT
                                    !.log_lines = <<line>>]]
                       ELSE session
            /\ files = {names[i] : i \in 1..n}
            /\ req = [h \in Handlers |-> Idle]
            /\ loop = 0
            /\ bg = [t \in Runs |->
                        IF running /\ t = 1
                        THEN [Born(args) EXCEPT
                                !.pc = "stream", !.wrote = Len(ResetFields)]
                        ELSE Unborn]
            /\ appended = IF running THEN <<line>> ELSE <<>>
            /\ lastFinished = 0
            /\ STATE_LOCK = 0

NextStart ==
    \/ \E h \in Handlers : Return(h)
    \/ \E h \in Handlers :
        \/ train_now(h)
        \/ train_now_launch(h)

SpecStart == InitStart /\ [][NextStart]_vars

\* One training run alone, printing up to LogMaxOut lines: the state left by
\* the first accepted start request of SpecTrain
InitLog ==
    /\ State = TrainReady
    /\ files = {out_name(1, 1)}
    /\ req = [h \in Handlers |-> Idle]
    /\ loop = 0
    /\ bg = [t \in Runs |->
                IF t = 1
                THEN Born(train_args(TrainReady, TrainReady.safe_word[1]))
                ELSE Unborn]
    /\ appended = <<>>
    /\ lastFinished = 0
    /\ STATE_LOCK = 0

NextLog == \E t \in Runs : _run_training_background(t, LogMaxOut)

SpecLog == InitLog /\ [][NextLog]_vars

\* One training run beside session starts and resets: the run of InitLog,
\* started for the session "Hi ", while sessions of other phrases are started
FrameArgs == train_args(TrainReady, TrainReady.safe_word[1])

NextFrame ==
    \/ \E h \in Handlers : Return(h)
    \/ \E h \in Handlers :
        \/ start_session(h, FewPayloads)
        \/ start_session_glob(h)
        \/ start_session_unlink(h)
        \/ reset_recordings(h)
        \/ reset_recordings_unlink(h)
        \/ reset_recordings_clear(h)
        \/ train_status(h)
    \/ \E t \in Runs : _run_training_background(t, MaxOut)

SpecFrame == InitLog /\ [][NextFrame]_vars

\* Start requests beside session starts; the started threads do not run yet
NextSnapshot ==
    \/ \E h \in Handlers : Return(h)
    \/ \E h \in Handlers :
        \/ start_session(h, FewPayloads)
        \/ start_session_glob(h)
        \/ start_session_unlink(h)
        \/ upload_take(h, FewIndexes, FewIndexes)
        \/ upload_take_write(h)
        \/ upload_take_record(h)
        \/ upload_take_respond(h)
        \/ train_now(h)
        \/ train_now_launch(h)

SpecSnapshot == InitTrain /\ [][NextSnapshot]_vars

\* Every request that needs no training to be startable, beside the run of
\* InitLog.  In FairStall a request in progress takes its next step, the client
\* of an upload sends its file, and a thread inside its reset block goes on;
\* nothing makes the external process print, fail or exit, so the thread may
\* wait for it for ever.
NextStall ==
    \/ \E h \in Handlers : Return(h)
    \/ \E h \in Handlers :
        \/ start_session(h, FewPayloads)
        \/ start_session_glob(h)
        \/ start_session_unlink(h)
        \/ get_session(h)
        \/ upload_take(h, FewIndexes, FewIndexes)
        \/ upload_take_write(h)
        \/ upload_take_record(h)
        \/ upload_take_respond(h)
        \/ train_status(h)
        \/ reset_recordings(h)
        \/ reset_recordings_unlink(h)
        \/ reset_recordings_clear(h)
    \/ \E t \in Runs : _run_training_background(t, MaxOut)

SpecStall == InitLog /\ [][NextStall]_vars

\* the steps that continue a request already begun
Progress(h) ==
    \/ Return(h)
    \/ start_session_glob(h)
    \/ start_session_unlink(h)
    \/ upload_take_write(h)
    \/ upload_take_record(h)
    \/ upload_take_respond(h)
    \/ reset_recordings_unlink(h)
    \/ reset_recordings_clear(h)

FairStall ==
    /\ SpecStall
    /\ \A h \in Handlers : SF_vars(Progress(h))
    /\ \A t \in Runs : SF_vars(run_reset_write(t))

\* The requests one at a time: a request begins when no other is in
\* progress.  Sessions of every clamped speakers_total, uploads at the edges
\* of the session's ranges.
Alone(h) == \A g \in Handlers \ {h} : req[g].pc = "idle"

NextSerial ==
    \E h \in Handlers :
        \/ Alone(h) /\ Return(h)
        \/ Alone(h) /\ start_session(h, SerialPayloads)
        \/ Alone(h) /\ start_session_glob(h)
        \/ Alone(h) /\ start_session_unlink(h)
        \/ Alone(h) /\ get_session(h)
        \/ Alone(h) /\ upload_take(h, EdgeIndexes(State.speakers_total),
                                    EdgeIndexes(State.takes_per_speaker))
        \/ Alone(h) /\ upload_take_write(h)
        \/ Alone(h) /\ upload_take_record(h)
        \/ Alone(h) /\ upload_take_respond(h)
        \/ Alone(h) /\ reset_recordings(h)
        \/ Alone(h) /\ reset_recordings_unlink(h)
        \/ Alone(h) /\ reset_recordings_clear(h)

SpecSerial == Init /\ [][NextSerial]_vars

----------------------------------------------------------------------------
(* Properties *)

Running(t) == bg[t].pc \notin {"unborn", "done"}

\* the exit code run t records: its process's, or the sentinel when it crashed
ExitOf(t) == IF bg[t].rc = None THEN SENTINEL_EXIT ELSE bg[t].rc[1]

\* C1: at most one background training task is executing at any time
C1_OneTrainingTask == Cardinality({t \in Runs : Running(t)}) <= 1

\* C2: when train_now returns its acceptance, the training record has
\* already been reset: running is true and exit_code is absent
C2_ResetOnAcceptance ==
    \A h \in Handlers :
        (req[h].op = "train_now" /\ req[h].pc = "done" /\ req[h].status = 200)
            => (State.training.running /\ State.training.exit_code = None)

NoExitWhileRunning(tr) == tr.running => tr.exit_code = None

\* C3: in every snapshot train_status or get_session returns, running = true
\* implies exit_code absent
C3_RunningHasNoExitCode ==
    \A h \in Handlers :
        req[h].pc = "done" =>
            /\ req[h].op = "train_status" => NoExitWhileRunning(req[h].body)
            /\ req[h].op = "get_session" => NoExitWhileRunning(req[h].body.training)

\* C4: every accepted run sets running to false exactly once, on the normal,
\* the launch-failure and the streaming-exception path, and does so eventually
C4_RunClearsRunningOnce ==
    /\ [](\A t \in Runs : Running(t) => bg[t].cleared = 0)
    /\ [](\A t \in Runs : bg[t].pc = "done" => bg[t].cleared = 1)
    /\ \A t \in Runs :
        (bg[t].pc = "reset") ~> (bg[t].pc = "done" /\ ~State.training.running)

\* C4 witness: one run ended after a crash and one after a normal exit
C4_Witness ==
    \E t, u \in Runs :
        /\ bg[t].pc = "done" /\ bg[t].rc = None
        /\ bg[u].pc = "done" /\ bg[u].rc # None
        /\ ~State.training.running

\* C5: once a run has turned running from true to false, exit_code is that
\* run's exit code until the next start request is accepted
C5_ExitCodeFixed ==
    lastFinished # 0 => State.training.exit_code = Some(ExitOf(lastFinished))

\* the takes list names only takes inside the session's bounds
TakeInBounds(name) ==
    \E s \in 1..State.speakers_total, k \in 1..State.takes_per_speaker :
        name = out_name(s, k)

\* C6: no interleaving of start_session and upload_take leaves in the takes
\* list a filename validated against the previous session's bounds
C6_TakesOfOneSession ==
    \A i \in 1..Len(State.takes) : TakeInBounds(State.takes[i])

NoDuplicate(seq) ==
    \A i, j \in 1..Len(seq) : seq[i] = seq[j] => i = j

\* C7: the takes list never holds a filename twice, and recording a name it
\* already holds leaves the list and takes_received unchanged
C7_NoDuplicateTake ==
    /\ [](NoDuplicate(State.takes))
    /\ [][\A h \in Handlers :
            (/\ req[h].pc = "record"
             /\ req'[h].pc = "respond"
             /\ \E i \in 1..Len(State.takes) : State.takes[i] = req[h].out_name)
            => (/\ State'.takes = State.takes
                /\ State'.takes_received = State.takes_received)]_vars

\* C7 witness: an upload has recorded a name the list already held
C7_Witness ==
    \E h \in Handlers :
        /\ req[h].pc = "respond"
        /\ ~req[h].added
        /\ State.takes_received = 2

\* the last n elements of seq
LastN(seq, n) ==
    IF Len(seq) <= n THEN seq ELSE SubSeq(seq, Len(seq) - n + 1, Len(seq))

\* C8: log_lines never holds more than 250 lines and equals the most recent
\* (up to 250) lines appended since the last reset, in append order
C8_LogIsLastLines ==
    /\ Len(State.training.log_lines) <= LOG_CAP
    /\ State.training.log_lines = LastN(appended, LOG_CAP)

\* C8 witness: 300 lines appended, lines 51 to 300 held
C8_Witness ==
    /\ Len(appended) = 300
    /\ State.training.log_lines = SubSeq(appended, 51, 300)
    /\ State.training.log_lines[1] = <<"out", 1, 50>>

AlreadyRunning(r) ==
    /\ r.pc = "done"
    /\ r.status = 400
    /\ r.body.error = "Training already running"

\* C9: a start request that reads running = true is rejected as already
\* running whatever the session, the takes and the script are, and the
\* request changes nothing
C9_RunningRejected ==
    /\ [](\A h \in Handlers :
            (req[h].op = "train_now" /\ req[h].seen.training_running)
                => AlreadyRunning(req[h]))
    /\ [][\A h \in Handlers :
            (req[h].pc = "idle" /\ req'[h].op = "train_now"
                /\ State.training.running)
            => UNCHANGED <<State, files, bg, loop, appended>>]_vars

\* C9 witness: rejected as running with no take received and no script
C9_Witness ==
    \E h \in Handlers :
        /\ req[h].op = "train_now"
        /\ AlreadyRunning(req[h])
        /\ req[h].seen.takes_received = 0
        /\ ~req[h].seen.script_exists

\* C10: with a session, no job running and the script present, a start
\* request is rejected as not enough takes exactly when takes_received is
\* less than min(3, speakers_total * takes_per_speaker), and accepted otherwise
C10_TakesThreshold ==
    \A h \in Handlers :
        (/\ req[h].op = "train_now"
         /\ Truthy(req[h].seen.safe_word)
         /\ ~req[h].seen.training_running
         /\ req[h].seen.script_exists)
        => IF req[h].seen.takes_received
                < Min(3, req[h].seen.speakers_total * req[h].seen.takes_per_speaker)
           THEN /\ req[h].pc = "done"
                /\ req[h].status = 400
                /\ req[h].body.error = "Not enough takes yet"
           ELSE \/ req[h].pc = "launch"
                \/ req[h].pc = "done" /\ req[h].status = 200

\* C10 witness: 2 speakers, 3 takes each, 4 takes received, accepted
C10_Witness ==
    \E h \in Handlers :
        /\ req[h].op = "train_now"
        /\ req[h].pc = "done"
        /\ req[h].status = 200
        /\ req[h].seen.speakers_total = 2
        /\ req[h].seen.takes_per_speaker = 3
        /\ req[h].seen.takes_received = 4

NoSession(r) ==
    /\ r.pc = "done"
    /\ r.status = 400
    /\ r.body.error = "No active session. Call /api/start_session first."

OutOfRange(r) ==
    /\ r.pc = "done"
    /\ r.status = 400
    /\ r.body.error \in {"speaker_index must be 1..speakers_total",
                         "take_index must be 1..takes_per_speaker"}

\* C11: an upload is rejected as no active session when no session has been
\* started, and as out of range when speaker_index is outside
\* 1..speakers_total or take_index outside 1..takes_per_speaker of the session;
\* a rejected upload writes no file and leaves takes and takes_received alone
C11_UploadRejected ==
    /\ [][\A h \in Handlers :
            (req[h].pc = "idle" /\ req'[h].op = "upload_take")
            => LET r == req'[h]
                   outside ==
                       \/ r.speaker_index \notin 1..State.speakers_total
                       \/ r.take_index \notin 1..State.takes_per_speaker
               IN  /\ State.safe_word = None => NoSession(r)
                   /\ (State.safe_word # None /\ outside) => OutOfRange(r)]_vars
    /\ [][\A h \in Handlers :
            (/\ req'[h] # req[h]
             /\ req'[h].op = "upload_take"
             /\ req'[h].pc = "done"
             /\ req'[h].status = 400)
            => UNCHANGED <<State, files>>]_vars

\* C11 witness: with takes recorded in a session of 10 speakers, an upload
\* for speaker 11 has been rejected
C11_Witness ==
    \E h \in Handlers :
        /\ req[h].op = "upload_take"
        /\ OutOfRange(req[h])
        /\ State.speakers_total = SPEAKERS_MAX
        /\ req[h].speaker_index = SPEAKERS_MAX + 1
        /\ req[h].take_index = 1
        /\ State.takes_received > 0

\* C12: the stored speakers_total is max(1, min(10, input)) and the stored
\* takes_per_speaker is max(1, min(50, input)) for every integer supplied,
\* 0 and the negative ones included
C12_Clamped ==
    [][\A h \in Handlers :
        (req[h].pc = "idle" /\ req'[h].op = "start_session" /\ req'[h].pc = "glob")
        => LET given == req'[h].payload
           IN  /\ given.speakers_total # None
                    => State'.speakers_total
                        = Max(1, Min(SPEAKERS_MAX, given.speakers_total[1]))
               /\ given.takes_per_speaker # None
                    => State'.takes_per_speaker
                        = Max(1, Min(TAKES_MAX, given.takes_per_speaker[1]))]_vars

SessionRoutes == {"start_session", "reset_recordings"}

\* C14: no step of start_session or reset_recordings changes the training
\* record, and the record's safe_word and lang stay those the run was started
\* with while and after sessions of other phrases are started
C14_TrainingRecordKept ==
    /\ [][\A h \in Handlers :
            (/\ req'[h] # req[h]
             /\ req[h].op \in SessionRoutes \/ req'[h].op \in SessionRoutes)
            => State'.training = State.training]_vars
    /\ [](bg[1].pc \notin {"reset", "resetting"}
            => /\ State.training.safe_word = Some(FrameArgs.safe_word)
               /\ State.training.lang = Some(FrameArgs.lang))

\* C14 witness: the run for "hi" has ended after a session for another
\* phrase, in Russian, was started and a reset was made
C14_Witness ==
    /\ bg[1].pc = "done"
    /\ State.safe_word = Some(<<"p", "z", "h">>)
    /\ State.lang = Some("ru")
    /\ State.training.safe_word = Some(<<"h", "i">>)
    /\ State.training.lang = Some("en")
    /\ \E h \in Handlers : req[h].op = "reset_recordings" /\ req[h].pc = "done"

\* the arguments of a thread are those of one session of SpecSnapshot, whose
\* sessions all have their language detected from the phrase
OneSession(a) ==
    /\ a.safe_word = safe_name(a.raw_phrase)
    /\ a.lang = detect_language(a.raw_phrase)

\* C17: the safe_word, raw_phrase and lang a training thread is started with
\* all belong to the same session
C17_ArgsOfOneSession ==
    \A t \in Runs : bg[t].pc = "reset" => OneSession(bg[t].args)

Last(seq) == seq[Len(seq)]

\* C15: a run that cannot launch its process or read its output appends a
\* crashed line to the log, records the exit code 999, which no process
\* returns, and ends with running = false; no step of the thread touches a
\* request, whose acceptance was returned when the thread was started
C15_CrashRecorded ==
    /\ [](SENTINEL_EXIT \notin 0..255)
    /\ [][\A t \in Runs :
            (bg[t].pc = "except" /\ bg'[t].pc # "except")
            => /\ appended' = Append(appended, <<"crashed", t>>)
               /\ Last(State'.training.log_lines) = <<"crashed", t>>]_vars
    /\ [][\A t \in Runs :
            (bg[t].pc = "set_sentinel" /\ bg'[t].pc # "set_sentinel")
            => State'.training.exit_code = Some(SENTINEL_EXIT)]_vars
    /\ [][\A t \in Runs :
            (bg[t].pc # "done" /\ bg'[t].pc = "done")
            => ~State'.training.running]_vars
    /\ [][\A t \in Runs :
            (bg[t].pc # "unborn" /\ bg'[t] # bg[t]) => req' = req]_vars
    /\ [](\A t \in Runs :
            (/\ bg[t].pc = "done"
             /\ bg[t].rc = None
             /\ \A u \in Runs \ {t} : bg[u].pc = "unborn")
            => /\ State.training.exit_code = Some(SENTINEL_EXIT)
               /\ ~State.training.running
               /\ Last(State.training.log_lines) = <<"crashed", t>>)
    /\ \A t \in Runs :
        (bg[t].pc = "except") ~> (bg[t].pc = "done" /\ bg[t].rc = None)

\* C15 witness: a crashed run has ended: 999 recorded, the crashed line last
\* in the log, running false, the start request answered long ago
C15_Witness ==
    \E t \in Runs :
        /\ bg[t].pc = "done"
        /\ bg[t].rc = None
        /\ State.training.exit_code = Some(SENTINEL_EXIT)
        /\ ~State.training.running
        /\ Last(State.training.log_lines) = <<"crashed", t>>
        /\ \A h \in Handlers : req[h].pc = "idle"

\* a thread has made some but not all of the assignments of its reset block
MidReset(t) ==
    /\ bg[t].pc = "resetting"
    /\ bg[t].wrote \in 1..(Len(ResetFields) - 1)

\* C16: train_status and get_session return the training record as it is
\* outside the reset block: wholly before the reset or wholly after it
C16_SnapshotFullyFormed ==
    [][\A h \in Handlers :
        (/\ req[h].pc = "idle"
         /\ req'[h].pc = "done"
         /\ req'[h].op \in {"train_status", "get_session"})
        => /\ \A t \in Runs : ~MidReset(t)
           /\ req'[h].op = "train_status" => req'[h].body = State.training
           /\ req'[h].op = "get_session" => req'[h].body.training = State.training]_vars

\* C16 witness: a status read after the reset of a second run returned the
\* record of the new run alone
C16_Witness ==
    \E h \in Handlers, t, u \in Runs :
        /\ req[h].op = "train_status"
        /\ req[h].pc = "done"
        /\ bg[u].pc = "done"
        /\ bg[t].pc = "log_cmd"
        /\ req[h].body = training_reset(TRAINING0, bg[t].args)

\* C19: the takes_received a successful upload returns counts the take it
\* recorded: it is at least 1 and is the length of the takes list when the
\* upload's filename was recorded
C19_ReturnsUpdatedTotal ==
    [][\A h \in Handlers :
        (req[h].op = "upload_take" /\ req[h].pc = "respond" /\ req'[h].pc = "done")
        => /\ req'[h].body.takes_received >= 1
           /\ req'[h].body.takes_received = req[h].total]_vars

\* the names held by the takes list
Listed(st) == {st.takes[i] : i \in 1..Len(st.takes)}

\* C20: whenever no request is in progress, the takes list names exactly the
\* take files in storage
C20_TakesMatchFiles ==
    (\A h \in Handlers : req[h].pc = "idle") => Listed(State) = files

\* C18: a training thread holds the lock inside its reset block only, never
\* where it starts, reads or waits for the external process or writes the log
\* file; the lock is always released again, and every request in progress
\* completes although the external process may never print or exit
C18_LockNotHeldOverIO ==
    /\ [](STATE_LOCK \in {0} \cup Runs)
    /\ [](\A t \in Runs : STATE_LOCK = t => bg[t].pc = "resetting")
    /\ (STATE_LOCK # 0) ~> (STATE_LOCK = 0)
    /\ \A h \in Handlers :
        (req[h].pc \notin {"idle", "done"}) ~> (req[h].pc = "done")

\* C18 witness: with the thread waiting for output of its process, a session
\* start, an upload and a reset have gone through their lock blocks
C18_Witness ==
    /\ bg[1].pc = "stream"
    /\ State.safe_word = Some(<<"p", "z", "h">>)
    /\ State.takes_received = 1
    /\ \E h \in Handlers : req[h].op = "reset_recordings" /\ req[h].pc = "clear"
    /\ \E h \in Handlers : req[h].op = "upload_take" /\ req[h].pc = "done"
                              /\ req[h].status = 200

====
